---- MODULE Spec2Model ----
(***************************************************************************)
(* Model of the earnalliance-go client (client.go, builder.go): the two    *)
(* queues, the cooldown-gated Flush, the deferred flush timer, the         *)
(* capacity-triggered drain, the periodic loop and Close.                  *)
(*                                                                         *)
(* Every goroutine is a thread with a program counter.  A step of a thread *)
(* is one critical section (from Lock to Unlock, with what the thread does *)
(* on its own right after it) or the end of one blocking call.  A thread   *)
(* that waits for a lock is a thread whose next step is not enabled.       *)
(*                                                                         *)
(* Time is discrete.  The model stores ages, not timestamps, so that time  *)
(* can advance for ever in a finite state space: sinceLastFlush is         *)
(* time.Since(c.lastFlush) capped at flushCooldown, and an armed timer     *)
(* carries the time left until its deadline.                               *)
(***************************************************************************)
EXTENDS Integers, Sequences, FiniteSets, TLC

\* ---------------------------------------------------------------- bounds
NumProducers == 2
MaxTimers == 2
MaxRecords == 2
MaxBatchSize == 2
FlushCooldown == 2
FlushInterval == 1
MaxCalls == 2
\* how many goroutines may be inside a client operation at the same moment
MaxActive == 2

\* --------------------------------------------------------------- threads
ProducerNames == <<"p1", "p2", "p3", "p4">>
TimerNames == <<"t1", "t2", "t3", "t4">>
Producers == {ProducerNames[i] : i \in 1..NumProducers}
Timers == {TimerNames[i] : i \in 1..MaxTimers}
Loop == "loop"
Closer == "closer"
Threads == Producers \cup Timers \cup {Loop, Closer}
Workers == Producers \cup Timers \cup {Loop}
Nil == "nil"

VARIABLES
  batchSize,        \* c.batchSize
  errorChan,        \* TRUE when c.errorChan is not nil
  flushLock,        \* holder of c.flushLock, or Nil
  queueLock,        \* holder of c.queueLock, or Nil
  sinceLastFlush,   \* time.Since(c.lastFlush), capped at FlushCooldown
  flushWaiting,     \* c.flushWaiting: a timer, or Nil
  timer,            \* the time.Timer objects created by time.AfterFunc
  eventQueue,       \* c.eventQueue
  identifierQueue,  \* c.identifierQueue
  pc,               \* position of every thread
  op,               \* the operation a thread is running
  caller,           \* the function that called process(): doProcess or Flush
  batch,            \* the local slices `identifiers`, `events` of process()
  ret,              \* what the last Flush() call of a producer returned
  builder,          \* the ClientBuilder: the options of cb.c, the last call
  encoded,          \* an Identifiers value and what json.Marshal made of it
  traits,           \* the Traits maps of a call of combineTraits
  round,            \* a Round and the events built by its Track
  wire,             \* the requests given to c.httpClient.Do, in call order
  nextId,           \* identity of the next record appended
  drained,          \* history: in how many batches process() put a record
  hist,             \* history of the running call of every thread
  window            \* history of the current cooldown window

\* The values that calls outside the queue machinery work on
values == <<encoded, traits, round, wire>>
config == <<batchSize, errorChan, builder, values>>
locks == <<flushLock, queueLock>>
timing == <<sinceLastFlush, flushWaiting, timer>>
queues == <<eventQueue, identifierQueue>>
control == <<pc, op, caller>>
vars == <<config, locks, timing, queues, control, batch, ret, nextId,
          drained, hist, window>>

\* ------------------------------------------------------------- helpers
Min(a, b) == IF a < b THEN a ELSE b
Max(a, b) == IF a > b THEN a ELSE b

Ids == 1..MaxRecords
\* resp is what comes of marshalling and sending the batch ("none" while
\* the batch has not been cut off the queues)
EmptyBatch == [identifiers |-> <<>>, events |-> <<>>, resp |-> "none"]
FreeTimer == [state |-> "free", left |-> 0, base |-> 0]
\* rec: the record the running call appended; qsize: the queueSize it read
\* after the append.
NoHist == [rec |-> 0, qsize |-> 0]
\* calls: the Flush calls that found the cooldown active since lastFlush was
\* last set; timers: the timers that were waiting when those calls returned.
NoWindow == [calls |-> 0, timers |-> {}]

\* len(c.eventQueue) + len(c.identifierQueue)
queueSize == Len(eventQueue) + Len(identifierQueue)

\* Close has been called
closed == pc[Closer] # "idle"

\* The goroutines that are inside an operation of the client: a producer in
\* a call, the loop in its Flush, a timer callback that has started.
Active == {t \in Producers \cup Timers : pc[t] # "idle"} \cup
          {t \in {Loop} : pc[t] \notin {"start", "select", "stopped", "panic"}}
\* One more goroutine may enter an operation
MayEnter == Cardinality(Active) < MaxActive

\* ---------------------------------------------------------- ClientBuilder
defaultMaxRetryAttempts == 5
defaultBatchSize == 100
\* in seconds
defaultFlushInterval == 30
defaultFlushCooldown == 10
defaultDSN == "https://events.earnalliance.com/v2/custom-events"

\* The strings and numbers the options are called with, and the values the
\* environment variables may hold
Strings == {"", "id"}
EnvStrings == {"", " ", "id"}
DSNs == {"", "/", "events", "http://h", "http://h/"}
EnvDSNs == {"", " ", "http://h"}
Numbers == -1..1

\* strings.TrimSpace
TrimSpace(x) == IF x = " " THEN "" ELSE x
\* strings.TrimSuffix(dsn, "/")
TrimSuffix(x) == IF x = "/" THEN "" ELSE IF x = "http://h/" THEN "http://h"
                 ELSE x
\* url.ParseRequestURI(x) returns no error: x is an absolute URI or an
\* absolute path.
ParseRequestURI(x) == x \in {"/", "http://h", "http://h/", defaultDSN}

\* The last call on the builder and how it ended
Call(o, x, n, e) == [op |-> o, str |-> x, num |-> n, outcome |-> e]
\* A call that panicked: nothing is stored.
Panic(o, x, n) == [builder EXCEPT !.last = Call(o, x, n, "panic")]

\* NewClientBuilder() with the environment variables id, secret, game, dsn
NewClientBuilder(id, secret, game, dsn) ==
  [clientID |-> TrimSpace(id),
   clientSecret |-> TrimSpace(secret),
   gameID |-> TrimSpace(game),
   dsn |-> IF TrimSpace(dsn) = "" THEN defaultDSN ELSE TrimSpace(dsn),
   flushInterval |-> defaultFlushInterval,
   flushCooldown |-> defaultFlushCooldown,
   retryMax |-> defaultMaxRetryAttempts,
   last |-> Call("NewClientBuilder", "", 0, "ok")]

\* The builder of the client that runs: its options are the ones of the
\* model, and Build has returned.
Built ==
  [clientID |-> "id", clientSecret |-> "id", gameID |-> "id",
   dsn |-> defaultDSN,
   flushInterval |-> FlushInterval,
   flushCooldown |-> FlushCooldown,
   retryMax |-> defaultMaxRetryAttempts,
   last |-> Call("Build", "", 0, "ok")]

\* ------------------------------------------------------------ Identifiers
\* The JSON keys of the fields of Identifiers, in the order of the struct
IdentifierFields == <<"appleId", "discordId", "email", "epicGamesId",
                      "steamId", "twitterId", "walletAddress">>
IdentifierKeys == {IdentifierFields[n] : n \in 1..Len(IdentifierFields)}
\* A field is a *string: <<>> is the nil pointer, <<x>> points to x.
Pointers == {<<>>, <<"">>, <<"a">>}

\* JSON values
JNull == [type |-> "null", str |-> ""]
JString(x) == [type |-> "string", str |-> x]

\* Identifier.MarshalJSON: null for the empty string, else the string in
\* quotes.  The fields of Identifiers are *string, not *Identifier, so
\* json.Marshal does not come here for them.
MarshalJSON(x) == IF x = "" THEN JNull ELSE JString(x)

\* encoding/json on a `*string` field tagged omitempty: the nil pointer is
\* left out, any string the pointer points to is written as a JSON string.
MarshalIdentifiers(v) ==
  LET present == SelectSeq(IdentifierFields, LAMBDA f : v[f] # <<>>)
  IN [n \in 1..Len(present) |->
        [key |-> present[n], value |-> JString(v[present[n]][1])]]

\* The zero Identifiers value, not marshalled
NotEncoded == [value |-> [f \in IdentifierKeys |-> <<>>],
               done |-> FALSE, json |-> <<>>]

\* ----------------------------------------------------------------- Traits
TraitKeys == {"k1", "k2"}
TraitValues == {"x", "y"}
\* The contents a Traits map may have
Maps == UNION {[K -> TraitValues] : K \in SUBSET TraitKeys}
EmptyMap == [k \in {} |-> "x"]
\* The map objects: two that the caller made, one for make() to return
Objects == 1..3
\* A Traits value is a map object or nil
NilMap == 0
\* The contents of the Traits value r in heap h; a nil map reads as empty.
Deref(h, r) == IF r = NilMap THEN EmptyMap ELSE h[r]

\* A faulty merge: the value of a wins on a shared key.
combineTraitsLeft(A, B) ==
  [k \in DOMAIN A \cup DOMAIN B |-> IF k \in DOMAIN A THEN A[k] ELSE B[k]]
\* combineTraits: n holds the entries of a, then every entry of b is
\* written over them.
combineTraits(A, B) ==
  LET n == [k \in DOMAIN A |-> A[k]]
  IN [k \in DOMAIN n \cup DOMAIN B |-> IF k \in DOMAIN B THEN B[k] ELSE n[k]]

\* A Traits argument by value: <<>> is nil, <<m>> a map with contents m.
TraitArgs == {<<>>} \cup {<<m>> : m \in Maps}
Contents(tv) == IF tv = <<>> THEN EmptyMap ELSE tv[1]
\* The ids a caller gives to StartRound, and what uuid.NewString() returns
RoundIds == {"", "r1"}
UUIDs == {"u1", "u2"}
\* No event built for a record
NoEvent == [groupId |-> "", traits |-> EmptyMap, given |-> <<>>]
\* No Round yet.  given is the id StartRound was called with; events holds,
\* for every record appended by Round.Track, the GroupID and Traits of the
\* event and the traits the call was given.
NoRound == [live |-> FALSE, given |-> "", id |-> "", traits |-> <<>>,
            events |-> [i \in Ids |-> NoEvent]]

\* No call of combineTraits yet
NoTraits == [heap |-> [o \in Objects |-> EmptyMap],
             a |-> NilMap, b |-> NilMap, out |-> NilMap]

\* ------------------------------------------------------------------ Init
\* The running part of the client after Build(): empty queues, zero
\* lastFlush (so the cooldown has elapsed), no timer, handleBatch started.
Running ==
  /\ batchSize \in 1..MaxBatchSize
  /\ errorChan \in BOOLEAN
  /\ flushLock = Nil
  /\ queueLock = Nil
  /\ sinceLastFlush = FlushCooldown
  /\ flushWaiting = Nil
  /\ timer = [k \in Timers |-> FreeTimer]
  /\ eventQueue = <<>>
  /\ identifierQueue = <<>>
  /\ pc = [t \in Threads |-> IF t = Loop THEN "start" ELSE "idle"]
  /\ op = [t \in Threads |-> IF t = Loop THEN "handleBatch" ELSE "none"]
  /\ caller = [t \in Threads |-> "none"]
  /\ batch = [t \in Threads |-> EmptyBatch]
  /\ ret = "none"
  /\ nextId = 1
  /\ drained = [i \in Ids |-> 0]
  /\ hist = [t \in Threads |-> NoHist]
  /\ window = NoWindow

\* State after NewClientBuilder()...Build()
Init ==
  /\ Running
  /\ builder = Built
  /\ encoded = NotEncoded
  /\ traits = NoTraits
  /\ round = NoRound
  /\ wire = <<>>

\* ------------------------------------------------------- pure functions
\* process(), first loop: copies identifierQueue[0..i-1] while i < batchSize
TakeIdentifiers(iq, bs) == SubSeq(iq, 1, Min(bs, Len(iq)))
\* A faulty second loop: it starts its count at 0, not at the number of
\* identifiers taken.
TakeEventsFull(i, eq, bs) == SubSeq(eq, 1, Min(bs, Len(eq)))
\* process(), second loop: copies eventQueue[0..j-1] while i < batchSize,
\* i starting at the number of identifiers taken
TakeEvents(i, eq, bs) == SubSeq(eq, 1, Min(Max(bs - i, 0), Len(eq)))
\* process(): `if i < len(q) { q = q[i:] } else { q = q[:0] }`
Reslice(q, i) == IF i < Len(q) THEN SubSeq(q, i + 1, Len(q)) ELSE <<>>
\* Flush(): leftover := c.flushCooldown - time.Since(c.lastFlush)
Leftover(since) == FlushCooldown - since
\* A faulty check: the cooldown never counts as elapsed.
CooldownElapsedLate(since) == since > FlushCooldown
\* Flush(): time.Since(c.lastFlush) >= c.flushCooldown
CooldownElapsed(since) == since >= FlushCooldown
\* A faulty check: the waiting timer is never seen.
WaitingNever(handle) == FALSE
\* Flush(): `if c.flushWaiting != nil`, a deferred flush is already waiting
Waiting(handle) == handle # Nil
\* Faulty comparisons: the drain starts one record late, or one early.
CapacityReachedLate(qs, bs) == qs > bs
CapacityReachedEarly(qs, bs) == qs >= bs - 1
\* appendEvent / appendIdentifier: `if queueSize >= c.batchSize`
CapacityReached(qs, bs) == qs >= bs
\* A faulty timer: its callback may start one unit of time too early.
ExpiredEarly(left) == left <= 1
\* May the runtime start the callback of a timer with this much time left?
Expired(left) == left = 0

\* A faulty check: no batch counts as empty.
EmptyDrainNever(b) == FALSE
\* process(): `if len(events) == 0 && len(identifiers) == 0`
EmptyDrain(b) == Len(b.events) = 0 /\ Len(b.identifiers) = 0

\* h with one more occurrence of every record of batch b
Count(h, b) ==
  [i \in Ids |-> h[i] + Cardinality({n \in 1..Len(b.identifiers) :
                                       b.identifiers[n] = i})
                      + Cardinality({n \in 1..Len(b.events) :
                                       b.events[n] = i})]

\* One more Flush call that found the cooldown active and left timer k
\* waiting.
Coalesce(w, k) == [calls |-> Min(w.calls + 1, MaxCalls),
                   timers |-> w.timers \cup {k}]

\* ---------------------------------------------------------- continuations
\* A continuation says where a thread goes on: its pc, the caller of
\* process() from then on, the value a finished Flush() call of a producer
\* returned, and whether the thread was a timer callback that has ended.
Goto(p, c) == [pc |-> p, caller |-> c, ret |-> ret, free |-> FALSE]

\* A faulty caller of Flush: SetIdentifiers and handleBatch drop the error.
AfterFlushDrop(t, e) ==
  IF op[t] = "Flush"
    THEN [pc |-> "idle", caller |-> "none", ret |-> e, free |-> FALSE]
  ELSE IF op[t] = "handleBatch" THEN Goto("select", "none")
  ELSE Goto("idle", "none")

\* Where a thread goes when Flush() returns e to its caller.
\*   Flush called by the user: the value is returned to the user.
\*   Flush called by SetIdentifiers or handleBatch: `err != nil &&
\*   c.errorChan != nil` sends on the channel, otherwise the caller goes on.
AfterFlush(t, e) ==
  IF op[t] = "Flush"
    THEN [pc |-> "idle", caller |-> "none", ret |-> e, free |-> FALSE]
  ELSE IF e = "err" /\ errorChan THEN Goto("errsend", "Flush")
  ELSE IF op[t] = "handleBatch" THEN Goto("select", "none")
  ELSE Goto("idle", "none")

\* Where a thread goes when doProcess() returns: the timer callback ends,
\* SetIdentifiers goes on to Flush, appendEvent returns to the caller.
AfterDoProcess(t) ==
  IF op[t] = "timer"
    THEN [pc |-> "idle", caller |-> "none", ret |-> ret, free |-> TRUE]
  ELSE IF op[t] = "SetIdentifiers" THEN Goto("f_lock", "none")
  ELSE Goto("idle", "none")

\* Where a thread goes when process() returns e: doProcess() sends the error
\* on the channel when there is one.
AfterProcess(t, e) ==
  IF caller[t] = "doProcess"
    THEN IF e = "err" /\ errorChan THEN Goto("errsend", "doProcess")
         ELSE AfterDoProcess(t)
    ELSE AfterFlush(t, e)

\* Where a thread goes when its send on the error channel has completed.
AfterErrSend(t) ==
  IF caller[t] = "doProcess" THEN AfterDoProcess(t)
  ELSE IF op[t] = "handleBatch" THEN Goto("select", "none")
  ELSE Goto("idle", "none")

\* The thread moves on as the continuation k says.  tm is the value of
\* `timer` the step leaves before a finished timer callback is released.
Continue(t, k, tm) ==
  /\ pc' = [pc EXCEPT ![t] = k.pc]
  /\ caller' = [caller EXCEPT ![t] = k.caller]
  /\ ret' = k.ret
  /\ timer' = IF k.free THEN [tm EXCEPT ![t] = FreeTimer] ELSE tm
  /\ op' = IF k.pc = "idle" THEN [op EXCEPT ![t] = "none"] ELSE op
  /\ hist' = IF k.pc = "idle" THEN [hist EXCEPT ![t] = NoHist] ELSE hist

\* ------------------------------------------- appendEvent, appendIdentifier
\* A faulty SetIdentifiers: it returns without calling Flush.
AfterAppendNoFlush(o) == "idle"

\* What follows the append when the capacity is not reached: appendEvent
\* returns to the caller of Track; SetIdentifiers goes on to call Flush.
AfterAppend(o) == IF o = "SetIdentifiers" THEN "f_lock" ELSE "idle"

\* The rest of appendEvent / appendIdentifier once the record is in its
\* queue: read queueSize, unlock, and doProcess() when the size has reached
\* batchSize.
FinishAppend(t, o, qs) ==
  /\ nextId' = nextId + 1
  /\ IF CapacityReached(qs, batchSize)
       THEN /\ pc' = [pc EXCEPT ![t] = "p_lock"]
            /\ caller' = [caller EXCEPT ![t] = "doProcess"]
            /\ hist' = [hist EXCEPT ![t] = [rec |-> nextId, qsize |-> qs]]
            /\ op' = [op EXCEPT ![t] = o]
       ELSE /\ pc' = [pc EXCEPT ![t] = AfterAppend(o)]
            /\ caller' = caller
            /\ hist' = hist
            /\ op' = IF AfterAppend(o) = "idle" THEN op
                     ELSE [op EXCEPT ![t] = o]
  /\ UNCHANGED <<config, locks, timing, batch, ret, drained, window>>

\* A faulty appendEvent: it puts the event at the front of the queue.
appendEventFront(t) ==
  /\ pc[t] = "idle"
  /\ ~closed
  /\ MayEnter
  /\ nextId <= MaxRecords
  /\ queueLock = Nil
  /\ eventQueue' = <<nextId>> \o eventQueue
  /\ identifierQueue' = identifierQueue
  /\ FinishAppend(t, "appendEvent", Len(eventQueue') + Len(identifierQueue'))

\* appendEvent, called by producer t: under queueLock,
\* c.eventQueue = append(c.eventQueue, *e).
appendEvent(t) ==
  /\ pc[t] = "idle"
  /\ ~closed
  /\ MayEnter
  /\ nextId <= MaxRecords
  /\ queueLock = Nil
  /\ eventQueue' = Append(eventQueue, nextId)
  /\ identifierQueue' = identifierQueue
  /\ FinishAppend(t, "appendEvent", Len(eventQueue') + Len(identifierQueue'))

\* appendIdentifier, called by SetIdentifiers of producer t: under
\* queueLock, c.identifierQueue = append(c.identifierQueue, *i).
appendIdentifier(t) ==
  /\ pc[t] = "idle"
  /\ ~closed
  /\ MayEnter
  /\ nextId <= MaxRecords
  /\ queueLock = Nil
  /\ identifierQueue' = Append(identifierQueue, nextId)
  /\ eventQueue' = eventQueue
  /\ FinishAppend(t, "SetIdentifiers",
                  Len(eventQueue') + Len(identifierQueue'))

\* ------------------------------------------------------- producer calls
\* The three calls differ in the event they build, which the model leaves
\* out: each of them is a call of appendEvent.
Track(t) == appendEvent(t)
StartGame(t) == appendEvent(t)
\* Round.Track
RoundTrack(t) == appendEvent(t)
\* SetIdentifiers up to the return of appendIdentifier
SetIdentifiers(t) == appendIdentifier(t)

\* A producer calls Flush.
Flush(t) ==
  /\ pc[t] = "idle"
  /\ ~closed
  /\ MayEnter
  /\ pc' = [pc EXCEPT ![t] = "f_lock"]
  /\ op' = [op EXCEPT ![t] = "Flush"]
  /\ UNCHANGED <<config, locks, timing, queues, caller, batch, ret, nextId,
                 drained, hist, window>>

\* ---------------------------------------------------------------- process
\* A faulty process(): it copies the queues without holding queueLock.
ProcessCopyUnlocked(t) ==
  /\ pc[t] = "p_lock"
  /\ queueLock' = t
  /\ batch' = [batch EXCEPT ![t] =
       [identifiers |-> SubSeq(identifierQueue, 1,
                               Min(batchSize, Len(identifierQueue))),
        events |-> SubSeq(eventQueue, 1,
                          Min(Max(batchSize - Len(identifierQueue), 0),
                              Len(eventQueue))),
        resp |-> "none"]]
  /\ pc' = [pc EXCEPT ![t] = "p_cut"]
  /\ UNCHANGED <<config, flushLock, timing, queues, op, caller, ret, nextId,
                 drained, hist, window>>

\* c.queueLock.Lock() and the two copy loops of process(): up to batchSize
\* records, identifiers first, are copied into the local slices.
ProcessCopy(t) ==
  /\ pc[t] = "p_lock"
  /\ queueLock = Nil
  /\ queueLock' = t
  /\ LET ids == TakeIdentifiers(identifierQueue, batchSize)
         evs == TakeEvents(Len(ids), eventQueue, batchSize)
     IN batch' = [batch EXCEPT ![t] =
                    [identifiers |-> ids, events |-> evs, resp |-> "none"]]
  /\ pc' = [pc EXCEPT ![t] = "p_cut"]
  /\ UNCHANGED <<config, flushLock, timing, queues, op, caller, ret, nextId,
                 drained, hist, window>>

\* A faulty process(): it sends the batch before it releases queueLock.
ProcessCutLocked(t, r) ==
  /\ pc[t] = "p_cut"
  /\ identifierQueue' = Reslice(identifierQueue, Len(batch[t].identifiers))
  /\ eventQueue' = Reslice(eventQueue, Len(batch[t].events))
  /\ drained' = Count(drained, batch[t])
  /\ IF EmptyDrain(batch[t])
       THEN /\ r = "nil"
            /\ queueLock' = Nil
            /\ Continue(t, AfterProcess(t, "nil"), timer)
            /\ batch' = batch
       ELSE /\ pc' = [pc EXCEPT ![t] = "send"]
            /\ queueLock' = queueLock
            /\ batch' = [batch EXCEPT ![t].resp = r]
            /\ UNCHANGED <<caller, ret, timer, op, hist>>
  /\ UNCHANGED <<config, flushLock, sinceLastFlush, flushWaiting, nextId,
                 window>>

\* The rest of the critical section of process(): the copied records are
\* cut off the front of the queues and the lock is released.  An empty batch
\* makes process() return nil.  Otherwise the thread goes on to marshal and
\* send the batch; r is what will come of it: "nil" when the server answers
\* {"message":"OK"}, "err" when json.Marshal or send() fails (a transport
\* error, any other body).
ProcessCut(t, r) ==
  /\ pc[t] = "p_cut"
  /\ identifierQueue' = Reslice(identifierQueue, Len(batch[t].identifiers))
  /\ eventQueue' = Reslice(eventQueue, Len(batch[t].events))
  /\ queueLock' = Nil
  /\ drained' = Count(drained, batch[t])
  /\ IF EmptyDrain(batch[t])
       THEN /\ r = "nil"
            /\ Continue(t, AfterProcess(t, "nil"), timer)
            /\ batch' = batch
       ELSE /\ pc' = [pc EXCEPT ![t] = "send"]
            /\ batch' = [batch EXCEPT ![t].resp = r]
            /\ UNCHANGED <<caller, ret, timer, op, hist>>
  /\ UNCHANGED <<config, flushLock, sinceLastFlush, flushWaiting, nextId,
                 window>>

\* A faulty process(): it puts the records of a failed batch back at the
\* front of their queues.
SendRequeue(t) ==
  /\ pc[t] = "send"
  /\ Continue(t, AfterProcess(t, batch[t].resp), timer)
  /\ batch' = [batch EXCEPT ![t] = EmptyBatch]
  /\ identifierQueue' = IF batch[t].resp = "err"
                          THEN batch[t].identifiers \o identifierQueue
                          ELSE identifierQueue
  /\ eventQueue' = IF batch[t].resp = "err"
                     THEN batch[t].events \o eventQueue
                     ELSE eventQueue
  /\ UNCHANGED <<config, locks, sinceLastFlush, flushWaiting, nextId,
                 drained, window>>

\* json.Marshal and send(), with its call of c.httpClient.Do(req), come to
\* an end: process() returns the outcome.
Send(t) ==
  /\ pc[t] = "send"
  /\ Continue(t, AfterProcess(t, batch[t].resp), timer)
  /\ batch' = [batch EXCEPT ![t] = EmptyBatch]
  /\ UNCHANGED <<config, locks, sinceLastFlush, flushWaiting, queues, nextId,
                 drained, window>>

\* `c.errorChan <- err` completes: the channel is unbuffered, so this is
\* the moment a receiver takes the error.
ErrSend(t) ==
  /\ pc[t] = "errsend"
  /\ Continue(t, AfterErrSend(t), timer)
  /\ UNCHANGED <<config, locks, sinceLastFlush, flushWaiting, queues, batch,
                 nextId, drained, window>>

\* ------------------------------------------------------------------ Flush
\* A faulty Flush: it releases flushLock before it arms the timer.
FlushCheckUnlocked(t) ==
  /\ pc[t] = "f_lock"
  /\ flushLock = Nil
  /\ flushLock' = Nil
  /\ IF sinceLastFlush >= FlushCooldown
       THEN /\ sinceLastFlush' = 0
            /\ pc' = [pc EXCEPT ![t] = "p_lock"]
            /\ caller' = [caller EXCEPT ![t] = "Flush"]
            /\ window' = NoWindow
            /\ UNCHANGED <<ret, timer, op, hist>>
       ELSE IF flushWaiting # Nil
         THEN /\ Continue(t, AfterFlush(t, "nil"), timer)
              /\ window' = Coalesce(window, flushWaiting)
              /\ sinceLastFlush' = sinceLastFlush
         ELSE /\ pc' = [pc EXCEPT ![t] = "f_arm"]
              /\ UNCHANGED <<sinceLastFlush, caller, ret, timer, op, hist,
                             window>>
  /\ UNCHANGED <<config, queueLock, flushWaiting, queues, batch, nextId,
                 drained>>

\* A faulty Flush: on the elapsed path it calls process() with flushLock
\* still held.
FlushCheckHolds(t) ==
  /\ pc[t] = "f_lock"
  /\ flushLock = Nil
  /\ IF CooldownElapsed(sinceLastFlush)
       THEN /\ sinceLastFlush' = 0
            /\ flushLock' = t
            /\ pc' = [pc EXCEPT ![t] = "p_lock"]
            /\ caller' = [caller EXCEPT ![t] = "Flush"]
            /\ window' = NoWindow
            /\ UNCHANGED <<ret, timer, op, hist>>
       ELSE IF Waiting(flushWaiting)
         THEN /\ flushLock' = Nil
              /\ Continue(t, AfterFlush(t, "nil"), timer)
              /\ window' = Coalesce(window, flushWaiting)
              /\ sinceLastFlush' = sinceLastFlush
         ELSE /\ flushLock' = t
              /\ pc' = [pc EXCEPT ![t] = "f_arm"]
              /\ UNCHANGED <<sinceLastFlush, caller, ret, timer, op, hist,
                             window>>
  /\ UNCHANGED <<config, queueLock, flushWaiting, queues, batch, nextId,
                 drained>>

\* A faulty Flush: on the elapsed path it drains without setting lastFlush.
FlushCheckNoStamp(t) ==
  /\ pc[t] = "f_lock"
  /\ flushLock = Nil
  /\ IF CooldownElapsed(sinceLastFlush)
       THEN /\ sinceLastFlush' = sinceLastFlush
            /\ flushLock' = Nil
            /\ pc' = [pc EXCEPT ![t] = "p_lock"]
            /\ caller' = [caller EXCEPT ![t] = "Flush"]
            /\ window' = NoWindow
            /\ UNCHANGED <<ret, timer, op, hist>>
       ELSE IF Waiting(flushWaiting)
         THEN /\ flushLock' = Nil
              /\ Continue(t, AfterFlush(t, "nil"), timer)
              /\ window' = Coalesce(window, flushWaiting)
              /\ sinceLastFlush' = sinceLastFlush
         ELSE /\ flushLock' = t
              /\ pc' = [pc EXCEPT ![t] = "f_arm"]
              /\ UNCHANGED <<sinceLastFlush, caller, ret, timer, op, hist,
                             window>>
  /\ UNCHANGED <<config, queueLock, flushWaiting, queues, batch, nextId,
                 drained>>

\* c.flushLock.Lock() and the decision of Flush().
\*   cooldown elapsed: lastFlush = now, unlock, process();
\*   a timer is waiting: unlock, return nil;
\*   otherwise go on to arm a timer (the lock stays held).
FlushCheck(t) ==
  /\ pc[t] = "f_lock"
  /\ flushLock = Nil
  /\ IF CooldownElapsed(sinceLastFlush)
       THEN /\ sinceLastFlush' = 0
            /\ flushLock' = Nil
            /\ pc' = [pc EXCEPT ![t] = "p_lock"]
            /\ caller' = [caller EXCEPT ![t] = "Flush"]
            /\ window' = NoWindow
            /\ UNCHANGED <<ret, timer, op, hist>>
       ELSE IF Waiting(flushWaiting)
         THEN /\ flushLock' = Nil
              /\ Continue(t, AfterFlush(t, "nil"), timer)
              /\ window' = Coalesce(window, flushWaiting)
              /\ sinceLastFlush' = sinceLastFlush
         ELSE /\ flushLock' = t
              /\ pc' = [pc EXCEPT ![t] = "f_arm"]
              /\ UNCHANGED <<sinceLastFlush, caller, ret, timer, op, hist,
                             window>>
  /\ UNCHANGED <<config, queueLock, flushWaiting, queues, batch, nextId,
                 drained>>

\* c.flushWaiting = time.AfterFunc(leftover, func), unlock, return nil.
\* k is the new timer, the first name that is free; base remembers how old
\* lastFlush was when the timer was armed.
FlushArm(t, k) ==
  /\ pc[t] = "f_arm"
  /\ timer[k].state = "free"
  /\ \A i \in 1..MaxTimers :
       TimerNames[i] = k =>
         \A j \in 1..(i - 1) : timer[TimerNames[j]].state # "free"
  /\ flushWaiting' = k
  /\ flushLock' = Nil
  /\ Continue(t, AfterFlush(t, "nil"),
       [timer EXCEPT ![k] = [state |-> "armed",
                             left |-> Max(Leftover(sinceLastFlush), 0),
                             base |-> sinceLastFlush]])
  /\ window' = Coalesce(window, k)
  /\ UNCHANGED <<config, queueLock, sinceLastFlush, queues, batch, nextId,
                 drained>>

\* ------------------------------------------------------ the deferred timer
\* The runtime starts the callback of timer k in its own goroutine.
TimerFire(k) ==
  /\ timer[k].state = "armed"
  /\ Expired(timer[k].left)
  /\ MayEnter
  /\ timer' = [timer EXCEPT ![k].state = "fired"]
  /\ pc' = [pc EXCEPT ![k] = "t_lock"]
  /\ op' = [op EXCEPT ![k] = "timer"]
  /\ UNCHANGED <<config, locks, sinceLastFlush, flushWaiting, queues, caller,
                 batch, ret, nextId, drained, hist, window>>

\* A faulty callback: it leaves the handle as it is.
TimerBodyKeepsHandle(k) ==
  /\ pc[k] = "t_lock"
  /\ flushLock = Nil
  /\ sinceLastFlush' = 0
  /\ pc' = [pc EXCEPT ![k] = "p_lock"]
  /\ caller' = [caller EXCEPT ![k] = "doProcess"]
  /\ window' = NoWindow
  /\ UNCHANGED <<config, locks, flushWaiting, timer, queues, op, batch, ret,
                 nextId, drained, hist>>

\* The callback: under flushLock, c.lastFlush = time.Now() and
\* c.flushWaiting = nil; then c.doProcess().
TimerBody(k) ==
  /\ pc[k] = "t_lock"
  /\ flushLock = Nil
  /\ sinceLastFlush' = 0
  /\ flushWaiting' = Nil
  /\ pc' = [pc EXCEPT ![k] = "p_lock"]
  /\ caller' = [caller EXCEPT ![k] = "doProcess"]
  /\ window' = NoWindow
  /\ UNCHANGED <<config, locks, timer, queues, op, batch, ret, nextId,
                 drained, hist>>

\* ------------------------------------------------------------ handleBatch
\* ticker := time.NewTicker(c.flushInterval): NewTicker panics when the
\* interval is not positive.
LoopStart ==
  /\ pc[Loop] = "start"
  /\ pc' = [pc EXCEPT ![Loop] = IF builder.flushInterval > 0 THEN "select"
                                ELSE "panic"]
  /\ UNCHANGED <<config, locks, timing, queues, op, caller, batch, ret,
                 nextId, drained, hist, window>>

\* A faulty loop: it waits for the stop signal only and never calls Flush.
LoopTickNever ==
  /\ pc[Loop] = "select"
  /\ closed
  /\ UNCHANGED vars

\* case <-ticker.C: the loop calls Flush.  When the ticker ticks is left
\* open: a tick may be there at any moment.
LoopTick ==
  /\ pc[Loop] = "select"
  /\ MayEnter
  /\ pc' = [pc EXCEPT ![Loop] = "f_lock"]
  /\ UNCHANGED <<config, locks, timing, queues, op, caller, batch, ret,
                 nextId, drained, hist, window>>

\* ------------------------------------------------------------------ Close
\* A faulty Close: it leaves the waiting timer alone.
CloseNoStop ==
  /\ pc[Closer] = "idle"
  /\ \A t \in Producers : pc[t] = "idle"
  /\ queueLock = Nil
  /\ pc' = [pc EXCEPT ![Closer] = "c_signal"]
  /\ op' = [op EXCEPT ![Closer] = "Close"]
  /\ UNCHANGED <<config, locks, timing, queues, caller, batch, ret, nextId,
                 drained, hist, window>>

\* Close up to its channel send: under queueLock,
\* `if c.flushWaiting != nil { c.flushWaiting.Stop() }`.  Stop prevents the
\* callback only when the timer has not fired yet.  Close is not concurrency
\* safe, so no producer call is running and none starts afterwards.  The
\* handle is read without flushLock: the value read is the one of this
\* moment.
Close ==
  /\ pc[Closer] = "idle"
  /\ \A t \in Producers : pc[t] = "idle"
  /\ queueLock = Nil
  /\ timer' = IF flushWaiting # Nil /\ timer[flushWaiting].state = "armed"
                THEN [timer EXCEPT ![flushWaiting].state = "stopped"]
                ELSE timer
  /\ pc' = [pc EXCEPT ![Closer] = "c_signal"]
  /\ op' = [op EXCEPT ![Closer] = "Close"]
  /\ UNCHANGED <<config, locks, sinceLastFlush, flushWaiting, queues, caller,
                 batch, ret, nextId, drained, hist, window>>

\* A faulty loop: it takes the stop signal and goes on with its select.
LoopStopGoesOn ==
  /\ pc[Closer] = "c_signal"
  /\ pc[Loop] = "select"
  /\ pc' = [pc EXCEPT ![Closer] = "closed"]
  /\ UNCHANGED <<config, locks, timing, queues, op, caller, batch, ret,
                 nextId, drained, hist, window>>

\* c.stopBatchHandler <- struct{}{} meets `case <-c.stopBatchHandler` of the
\* loop: the channel is unbuffered, so Close returns and the loop returns in
\* one step.
LoopStop ==
  /\ pc[Closer] = "c_signal"
  /\ pc[Loop] = "select"
  /\ pc' = [pc EXCEPT ![Closer] = "closed", ![Loop] = "stopped"]
  /\ UNCHANGED <<config, locks, timing, queues, op, caller, batch, ret,
                 nextId, drained, hist, window>>

\* ------------------------------------------------------------------- time
\* One unit of time passes: lastFlush gets older and the armed timer gets
\* nearer to its deadline.
Tick ==
  /\ sinceLastFlush' = Min(sinceLastFlush + 1, FlushCooldown)
  /\ timer' = [k \in Timers |->
       IF timer[k].state \in {"armed", "fired"}
         THEN [timer[k] EXCEPT !.left = Max(@ - 1, 0),
                               !.base = Min(@ + 1, FlushCooldown)]
         ELSE timer[k]]
  /\ UNCHANGED <<config, locks, flushWaiting, queues, control, batch, ret,
                 nextId, drained, hist, window>>

\* ------------------------------------------------------------------- Next
Next ==
  \/ \E t \in Producers : Track(t)
  \/ \E t \in Producers : StartGame(t)
  \/ \E t \in Producers : RoundTrack(t)
  \/ \E t \in Producers : SetIdentifiers(t)
  \/ \E t \in Producers : Flush(t)
  \/ \E t \in Workers : ProcessCopy(t)
  \/ \E t \in Workers : \E r \in {"nil", "err"} : ProcessCut(t, r)
  \/ \E t \in Workers : Send(t)
  \/ \E t \in Workers : ErrSend(t)
  \/ \E t \in Producers \cup {Loop} : FlushCheck(t)
  \/ \E t \in Producers \cup {Loop} : \E k \in Timers : FlushArm(t, k)
  \/ \E k \in Timers : TimerFire(k)
  \/ \E k \in Timers : TimerBody(k)
  \/ LoopStart
  \/ LoopTick
  \/ Tick

\* The client while it is not shut down
Spec == Init /\ [][Next]_vars

\* The client with its shutdown
NextClose == Next \/ Close \/ LoopStop
SpecClose == Init /\ [][NextClose]_vars

\* ---------------------------------------------------------------- fairness
\* The next step of thread t inside the operation it is running
Progress(t) ==
  \/ ProcessCopy(t)
  \/ \E r \in {"nil", "err"} : ProcessCut(t, r)
  \/ Send(t)
  \/ ErrSend(t)
  \/ FlushCheck(t)
  \/ \E k \in Timers : FlushArm(t, k)
  \/ TimerBody(t)

\* The producers of the specifications with fairness: one goroutine, whose
\* calls follow one another.
Callers == {ProducerNames[1]}

\* What the runtime and the environment grant.  A goroutine that can go on
\* does go on: it gets the lock that stays free, its HTTP call comes to an
\* end, and the error it sends on the error channel is received.  Time
\* advances and a timer whose deadline has passed gets its callback started.
Fairness ==
  /\ \A t \in Callers \cup Timers : WF_vars(Progress(t))
  /\ \A k \in Timers : WF_vars(TimerFire(k))
  /\ WF_vars(Tick)
\* The periodic loop starts, its ticker ticks again and again, and its Flush
\* goes on.
LoopFairness ==
  /\ WF_vars(LoopStart)
  /\ WF_vars(LoopTick)
  /\ WF_vars(Progress(Loop))

\* The client whose ticker never ticks (a flushInterval longer than the
\* run): what happens then happens without the periodic loop.
NextNoTick ==
  \/ \E t \in Callers : Track(t)
  \/ \E t \in Callers : SetIdentifiers(t)
  \/ \E t \in Callers : Flush(t)
  \/ \E t \in Workers : ProcessCopy(t)
  \/ \E t \in Workers : \E r \in {"nil", "err"} : ProcessCut(t, r)
  \/ \E t \in Workers : Send(t)
  \/ \E t \in Workers : ErrSend(t)
  \/ \E t \in Callers : FlushCheck(t)
  \/ \E t \in Callers : \E k \in Timers : FlushArm(t, k)
  \/ \E k \in Timers : TimerFire(k)
  \/ \E k \in Timers : TimerBody(k)
  \/ LoopStart
  \/ Tick
SpecNoTick == Init /\ [][NextNoTick]_vars /\ Fairness

\* The client whose producers only append, with its ticker ticking again
\* and again.
NextPeriodic ==
  \/ \E t \in Callers : Track(t)
  \/ \E t \in Callers : SetIdentifiers(t)
  \/ \E t \in Workers : ProcessCopy(t)
  \/ \E t \in Workers : \E r \in {"nil", "err"} : ProcessCut(t, r)
  \/ \E t \in Workers : Send(t)
  \/ \E t \in Workers : ErrSend(t)
  \/ \E t \in Callers \cup {Loop} : FlushCheck(t)
  \/ \E t \in Callers \cup {Loop} : \E k \in Timers : FlushArm(t, k)
  \/ \E k \in Timers : TimerFire(k)
  \/ \E k \in Timers : TimerBody(k)
  \/ LoopStart
  \/ LoopTick
  \/ Tick
SpecPeriodic ==
  Init /\ [][NextPeriodic]_vars /\ Fairness /\ LoopFairness

\* The client whose producer appends until Close is called, with its loop.
NextShutdown == NextPeriodic \/ Close \/ LoopStop
\* A select with several ready cases picks one of them at random: the stop
\* signal, ready again and again while Close waits, is taken in the end.
StopFairness == SF_vars(LoopStop)
SpecShutdown ==
  Init /\ [][NextShutdown]_vars /\ Fairness /\ LoopFairness /\ StopFairness

\* The scenario of NumProducers concurrent SetIdentifiers calls on the new
\* client: the calls are issued together and have all returned before time
\* goes on, and the ticker does not tick during the run.
CallsDone == nextId > NumProducers /\ \A t \in Producers : pc[t] = "idle"
QuietTick == CallsDone /\ Tick
NextIdentify ==
  \/ \E t \in Producers : nextId <= NumProducers /\ SetIdentifiers(t)
  \/ \E t \in Workers : ProcessCopy(t)
  \/ \E t \in Workers : \E r \in {"nil", "err"} : ProcessCut(t, r)
  \/ \E t \in Workers : Send(t)
  \/ \E t \in Workers : ErrSend(t)
  \/ \E t \in Producers : FlushCheck(t)
  \/ \E t \in Producers : \E k \in Timers : FlushArm(t, k)
  \/ \E k \in Timers : TimerFire(k)
  \/ \E k \in Timers : TimerBody(k)
  \/ LoopStart
  \/ QuietTick
SpecIdentify == Init /\ [][NextIdentify]_vars

\* The client whose error channel has no receiver that is sure to come: the
\* goroutines go on as before, except that nothing grants the completion of
\* a send on the error channel.
ProgressAlone(t) ==
  \/ ProcessCopy(t)
  \/ \E r \in {"nil", "err"} : ProcessCut(t, r)
  \/ Send(t)
  \/ FlushCheck(t)
  \/ \E k \in Timers : FlushArm(t, k)
  \/ TimerBody(t)
\* A sync.Mutex hands the lock to a goroutine that has waited for long
\* (starvation mode): the producer that waits for a lock gets it.
FairnessNoReceiver ==
  /\ \A t \in Callers : SF_vars(ProgressAlone(t))
  /\ \A t \in Timers \cup {Loop} : WF_vars(ProgressAlone(t))
  /\ \A k \in Timers : WF_vars(TimerFire(k))
  /\ WF_vars(Tick)
  /\ WF_vars(LoopStart)
  /\ WF_vars(LoopTick)
SpecNoReceiver == Init /\ [][NextPeriodic]_vars /\ FairnessNoReceiver

\* ---------------------------------------------------- the builder's calls
\* The builder has not built yet.
Building == pc[Loop] = "unborn"

\* A call on the builder leaves the running part of the client alone.
BuilderFrame ==
  UNCHANGED <<locks, timing, queues, op, caller, batch, ret, nextId, drained,
              hist, window>>

WithMaxRetryAttempts(n) ==
  /\ Building
  /\ builder' = IF n < 1 THEN Panic("WithMaxRetryAttempts", "", n)
                ELSE [builder EXCEPT
                        !.retryMax = n,
                        !.last = Call("WithMaxRetryAttempts", "", n, "ok")]
  /\ UNCHANGED <<batchSize, errorChan, values, pc>>
  /\ BuilderFrame

WithFlushInterval(n) ==
  /\ Building
  /\ builder' = IF n < 0 THEN Panic("WithFlushInterval", "", n)
                ELSE [builder EXCEPT
                        !.flushInterval = n,
                        !.last = Call("WithFlushInterval", "", n, "ok")]
  /\ UNCHANGED <<batchSize, errorChan, values, pc>>
  /\ BuilderFrame

WithFlushCooldown(n) ==
  /\ Building
  /\ builder' = IF n < 0 THEN Panic("WithFlushCooldown", "", n)
                ELSE [builder EXCEPT
                        !.flushCooldown = n,
                        !.last = Call("WithFlushCooldown", "", n, "ok")]
  /\ UNCHANGED <<batchSize, errorChan, values, pc>>
  /\ BuilderFrame

\* A faulty WithBatchSize: it stores whatever it is given.
WithBatchSizeUnchecked(n) ==
  /\ Building
  /\ batchSize' = n
  /\ builder' = [builder EXCEPT !.last = Call("WithBatchSize", "", n, "ok")]
  /\ UNCHANGED <<errorChan, values, pc>>
  /\ BuilderFrame

WithBatchSize(n) ==
  /\ Building
  /\ IF n < 1
       THEN /\ builder' = Panic("WithBatchSize", "", n)
            /\ batchSize' = batchSize
       ELSE /\ builder' = [builder EXCEPT
                             !.last = Call("WithBatchSize", "", n, "ok")]
            /\ batchSize' = n
  /\ UNCHANGED <<errorChan, values, pc>>
  /\ BuilderFrame

\* WithErrorChannel(ch): b says that ch is not nil.
WithErrorChannel(b) ==
  /\ Building
  /\ errorChan' = b
  /\ builder' = [builder EXCEPT
                   !.last = Call("WithErrorChannel", "", 0, "ok")]
  /\ UNCHANGED <<batchSize, values, pc>>
  /\ BuilderFrame

WithDSN(x) ==
  /\ Building
  /\ builder' = IF x = "" \/ ~ParseRequestURI(TrimSuffix(x))
                  THEN Panic("WithDSN", x, 0)
                ELSE [builder EXCEPT !.dsn = TrimSuffix(x),
                                     !.last = Call("WithDSN", x, 0, "ok")]
  /\ UNCHANGED <<batchSize, errorChan, values, pc>>
  /\ BuilderFrame

WithClientID(x) ==
  /\ Building
  /\ builder' = IF x = "" THEN Panic("WithClientID", x, 0)
                ELSE [builder EXCEPT !.clientID = x,
                                     !.last = Call("WithClientID", x, 0, "ok")]
  /\ UNCHANGED <<batchSize, errorChan, values, pc>>
  /\ BuilderFrame

WithClientSecret(x) ==
  /\ Building
  /\ builder' = IF x = "" THEN Panic("WithClientSecret", x, 0)
                ELSE [builder EXCEPT
                        !.clientSecret = x,
                        !.last = Call("WithClientSecret", x, 0, "ok")]
  /\ UNCHANGED <<batchSize, errorChan, values, pc>>
  /\ BuilderFrame

WithGameID(x) ==
  /\ Building
  /\ builder' = IF x = "" THEN Panic("WithGameID", x, 0)
                ELSE [builder EXCEPT !.gameID = x,
                                     !.last = Call("WithGameID", x, 0, "ok")]
  /\ UNCHANGED <<batchSize, errorChan, values, pc>>
  /\ BuilderFrame

\* Build: the panic on a missing option, or `go c.handleBatch()`.
Build ==
  /\ Building
  /\ IF builder.clientID = "" \/ builder.clientSecret = "" \/
        builder.gameID = "" \/ builder.dsn = ""
       THEN /\ builder' = Panic("Build", "", 0)
            /\ pc' = pc
       ELSE /\ builder' = [builder EXCEPT !.last = Call("Build", "", 0, "ok")]
            /\ pc' = [pc EXCEPT ![Loop] = "start"]
  /\ UNCHANGED <<batchSize, errorChan, values>>
  /\ BuilderFrame

\* The program from NewClientBuilder() on: a panic of the builder is
\* recovered by the caller, who may go on with the same builder.
InitBuilder ==
  /\ batchSize = defaultBatchSize
  /\ errorChan = FALSE
  /\ builder \in {NewClientBuilder(id, secret, game, dsn) :
                    id \in EnvStrings, secret \in EnvStrings,
                    game \in EnvStrings, dsn \in EnvDSNs}
  /\ encoded = NotEncoded
  /\ traits = NoTraits
  /\ round = NoRound
  /\ wire = <<>>
  /\ flushLock = Nil
  /\ queueLock = Nil
  /\ sinceLastFlush = FlushCooldown
  /\ flushWaiting = Nil
  /\ timer = [k \in Timers |-> FreeTimer]
  /\ eventQueue = <<>>
  /\ identifierQueue = <<>>
  /\ pc = [t \in Threads |-> IF t = Loop THEN "unborn" ELSE "idle"]
  /\ op = [t \in Threads |-> IF t = Loop THEN "handleBatch" ELSE "none"]
  /\ caller = [t \in Threads |-> "none"]
  /\ batch = [t \in Threads |-> EmptyBatch]
  /\ ret = "none"
  /\ nextId = 1
  /\ drained = [i \in Ids |-> 0]
  /\ hist = [t \in Threads |-> NoHist]
  /\ window = NoWindow

NextBuilder ==
  \/ \E n \in Numbers : WithMaxRetryAttempts(n + 1)
  \/ \E n \in Numbers : WithFlushInterval(n)
  \/ \E n \in Numbers : WithFlushCooldown(n)
  \/ \E n \in Numbers : WithBatchSize(n + 1)
  \/ \E b \in BOOLEAN : WithErrorChannel(b)
  \/ \E x \in DSNs : WithDSN(x)
  \/ \E x \in Strings : WithClientID(x)
  \/ \E x \in Strings : WithClientSecret(x)
  \/ \E x \in Strings : WithGameID(x)
  \/ Build
SpecBuilder == InitBuilder /\ [][NextBuilder]_vars

\* ------------------------------------------------- marshalling Identifiers
\* json.Marshal of an Identifiers value
Marshal ==
  /\ ~encoded.done
  /\ encoded' = [encoded EXCEPT !.done = TRUE,
                                 !.json = MarshalIdentifiers(encoded.value)]
  /\ UNCHANGED <<batchSize, errorChan, builder, traits, round, wire, locks,
                 timing, queues, control, batch, ret, nextId, drained, hist,
                 window>>

\* The client next to a program that marshals some Identifiers value
InitIdentifiers ==
  /\ Running
  /\ builder = Built
  /\ traits = NoTraits
  /\ round = NoRound
  /\ wire = <<>>
  /\ encoded \in {[value |-> v, done |-> FALSE, json |-> <<>>] :
                    v \in [IdentifierKeys -> Pointers]}
NextIdentifiers == Marshal
SpecIdentifiers == InitIdentifiers /\ [][NextIdentifiers]_vars

\* ----------------------------------------------------------- combineTraits
\* A call combineTraits(a, b): make() returns the map object that was not
\* in use, the entries are written into it, and it is returned.
CombineTraits ==
  /\ traits.out = NilMap
  /\ LET n == CHOOSE o \in Objects : o \notin {1, 2}
     IN traits' = [traits EXCEPT
                     !.heap[n] = combineTraits(Deref(traits.heap, traits.a),
                                               Deref(traits.heap, traits.b)),
                     !.out = n]
  /\ UNCHANGED <<batchSize, errorChan, builder, encoded, round, wire, locks,
                 timing, queues, control, batch, ret, nextId, drained, hist,
                 window>>

\* The client next to a program that is about to call combineTraits: a is
\* nil or the first map, b is nil, the second map, or the same map as a.
InitTraits ==
  /\ Running
  /\ builder = Built
  /\ encoded = NotEncoded
  /\ round = NoRound
  /\ wire = <<>>
  /\ traits \in {[heap |-> [o \in Objects |->
                               IF o = 1 THEN m1 ELSE IF o = 2 THEN m2
                               ELSE EmptyMap],
                    a |-> ra, b |-> rb, out |-> NilMap] :
                   m1 \in Maps, m2 \in Maps, ra \in {NilMap, 1},
                   rb \in {NilMap, 1, 2}}
NextTraits == CombineTraits
SpecTraits == InitTraits /\ [][NextTraits]_vars

\* ------------------------------------------------------------------ Round
\* StartRound(id, tr): an empty id is replaced by a fresh UUID u; the Round
\* keeps the id and the traits.  Nothing of the client is touched.
StartRound(id, tr, u) ==
  /\ ~round.live
  /\ ~closed
  /\ round' = [round EXCEPT !.live = TRUE,
                             !.given = id,
                             !.id = IF id = "" THEN u ELSE id,
                             !.traits = tr]
  /\ UNCHANGED <<batchSize, errorChan, builder, encoded, traits, wire, locks,
                 timing, queues, control, batch, ret, nextId, drained, hist,
                 window>>

\* Round.Track with the traits tr, called by producer t: the event is built
\* with GroupID r.id and Traits combineTraits(r.traits, tr), and appendEvent
\* puts it in the queue, as in appendEvent(t) above.
RoundTrackWith(t, tr) ==
  /\ round.live
  /\ pc[t] = "idle"
  /\ ~closed
  /\ MayEnter
  /\ nextId <= MaxRecords
  /\ queueLock = Nil
  /\ round' = [round EXCEPT !.events[nextId] =
       [groupId |-> round.id,
        traits |-> combineTraits(Contents(round.traits), Contents(tr)),
        given |-> tr]]
  /\ eventQueue' = Append(eventQueue, nextId)
  /\ identifierQueue' = identifierQueue
  /\ nextId' = nextId + 1
  /\ LET qs == Len(eventQueue') + Len(identifierQueue')
     IN IF CapacityReached(qs, batchSize)
          THEN /\ pc' = [pc EXCEPT ![t] = "p_lock"]
               /\ caller' = [caller EXCEPT ![t] = "doProcess"]
               /\ hist' = [hist EXCEPT ![t] = [rec |-> nextId, qsize |-> qs]]
               /\ op' = [op EXCEPT ![t] = "appendEvent"]
          ELSE UNCHANGED <<pc, caller, hist, op>>
  /\ UNCHANGED <<batchSize, errorChan, builder, encoded, traits, wire, locks,
                 timing, batch, ret, drained, window>>

\* The client with one Round, whose Track is what appends
InitRound == Init
NextRound ==
  \/ \E id \in RoundIds : \E tr \in TraitArgs : \E u \in UUIDs :
       StartRound(id, tr, u)
  \/ \E t \in Producers : \E tr \in TraitArgs : RoundTrackWith(t, tr)
  \/ \E t \in Workers : ProcessCopy(t)
  \/ \E t \in Workers : \E r \in {"nil", "err"} : ProcessCut(t, r)
  \/ \E t \in Workers : Send(t)
  \/ \E t \in Workers : ErrSend(t)
SpecRound == InitRound /\ [][NextRound]_vars

\* ------------------------------------------- from the builder to the loop
\* Close, called on a client that Build has returned
Shutdown ==
  /\ pc[Loop] \notin {"unborn", "panic"}
  /\ Close

\* The program from NewClientBuilder() on, with the loop that Build starts,
\* the Flush calls of its ticks, the timers these arm, and Close.  No
\* producer call is made, so every drain finds the queues empty.  Flush
\* measures its cooldown as in the other specifications, by FlushCooldown.
InitLoop == InitBuilder
NextLoop ==
  \/ NextBuilder
  \/ LoopStart
  \/ LoopTick
  \/ FlushCheck(Loop)
  \/ \E k \in Timers : FlushArm(Loop, k)
  \/ \E k \in Timers : TimerFire(k)
  \/ \E k \in Timers : TimerBody(k)
  \/ \E t \in Timers \cup {Loop} : ProcessCopy(t)
  \/ \E t \in Timers \cup {Loop} : ProcessCut(t, "nil")
  \/ Tick
  \/ Shutdown
  \/ LoopStop
SpecLoop == InitLoop /\ [][NextLoop]_vars

\* ------------------------------------------------- the order of the sends
\* The body of the request process() makes of its local slices
Request(b) == [identifiers |-> b.identifiers, events |-> b.events]
\* The thread has given the request of its batch to the HTTP client
Issued(t) == \E n \in 1..Len(wire) : wire[n] = Request(batch[t])

\* Between c.queueLock.Unlock() and the call of c.httpClient.Do(req) the
\* thread marshals the payload, signs it and builds the request, with no
\* lock held: Do(t) is the moment the request goes out.
Do(t) ==
  /\ pc[t] = "send"
  /\ ~Issued(t)
  /\ wire' = Append(wire, Request(batch[t]))
  /\ UNCHANGED <<batchSize, errorChan, builder, encoded, traits, round,
                 locks, timing, queues, control, batch, ret, nextId, drained,
                 hist, window>>

\* send() returns: the request was made, or json.Marshal, sign or
\* http.NewRequest failed before any request was made.
SendReturns(t) ==
  /\ Issued(t) \/ batch[t].resp = "err"
  /\ Send(t)

\* The client whose producers call Track, with the capacity drains this
\* causes and the call of the HTTP client as a step of its own
InitOrder == Init
NextOrder ==
  \/ \E t \in Producers : Track(t)
  \/ \E t \in Producers : ProcessCopy(t)
  \/ \E t \in Producers : \E r \in {"nil", "err"} : ProcessCut(t, r)
  \/ \E t \in Producers : Do(t)
  \/ \E t \in Producers : SendReturns(t)
  \/ \E t \in Producers : ErrSend(t)
SpecOrder == InitOrder /\ [][NextOrder]_vars

\* ------------------------------------------------------------ type check
TypeOK ==
  /\ batchSize \in 1..MaxBatchSize
  /\ flushLock \in Threads \cup {Nil}
  /\ queueLock \in Threads \cup {Nil}
  /\ sinceLastFlush \in 0..FlushCooldown
  /\ flushWaiting \in Timers \cup {Nil}
  /\ nextId \in 1..(MaxRecords + 1)

\* =================================================================== claims
\* The threads that run Flush(): the producers and the periodic loop
Flushers == Producers \cup {Loop}
\* The positions of a thread inside process()
InProcess == {"p_lock", "p_cut", "send"}

\* C1: Flush calls made while the cooldown is active are coalesced.  All the
\* calls that found the cooldown active since lastFlush was last set leave
\* one and the same timer waiting, whose callback has not drained yet; none
\* of these calls drains by itself; and the callback of a timer drains once.
C1_Coalescing ==
  /\ [](window.calls >= 1 =>
          /\ flushWaiting # Nil
          /\ window.timers = {flushWaiting}
          /\ timer[flushWaiting].state \in {"armed", "fired"}
          /\ pc[flushWaiting] \in {"idle", "t_lock"})
  /\ [][ /\ \A t \in Flushers :
              ( /\ pc'[t] # pc[t]
                /\ \/ pc[t] = "f_arm"
                   \/ pc[t] = "f_lock" /\ sinceLastFlush < FlushCooldown )
              => pc'[t] \notin InProcess
         /\ \A k \in Timers :
              (pc[k] \in {"p_cut", "send", "errsend"} /\ pc'[k] # pc[k])
              => pc'[k] \in {"send", "errsend", "idle"} ]_vars

\* C1 witness: two Flush calls have found the cooldown active and the one
\* timer they left is armed.
C1_Witness ==
  /\ window.calls >= 2
  /\ flushWaiting # Nil
  /\ timer[flushWaiting].state = "armed"

\* C2: a Flush that finds the cooldown elapsed sets lastFlush to now,
\* releases flushLock, goes on to process() and arms no timer; when that
\* process() ends, the call ends with it: its result is what a user's Flush
\* returns, and what SetIdentifiers and the loop send on the error channel
\* when it is an error and there is a channel.
C2_FlushElapsed ==
  [][ \A t \in Flushers :
        /\ ( /\ pc[t] = "f_lock"
             /\ pc'[t] # "f_lock"
             /\ sinceLastFlush >= FlushCooldown )
           => /\ sinceLastFlush' = 0
              /\ flushLock' = Nil
              /\ pc'[t] = "p_lock"
              /\ caller'[t] = "Flush"
              /\ flushWaiting' = flushWaiting
              /\ timer' = timer
        /\ ( /\ caller[t] = "Flush"
             /\ pc[t] \in {"p_cut", "send"}
             /\ pc'[t] \notin {"p_cut", "send"} )
           => LET e == IF pc[t] = "send" THEN batch[t].resp ELSE "nil"
              IN IF op[t] = "Flush"
                   THEN pc'[t] = "idle" /\ ret' = e
                   ELSE /\ (pc'[t] = "errsend") <=> (e = "err" /\ errorChan)
                        /\ pc'[t] \in {"errsend", "idle", "select"}
                        /\ ret' = ret ]_vars

\* C2 witness: a user's Flush that took the elapsed path has returned the
\* error of its drain.
C2_Witness ==
  /\ ret = "err"
  /\ \E t \in Producers : pc[t] = "idle" /\ drained[1] = 1

\* C3: a Flush that finds the cooldown active and no timer waiting arms one
\* timer set to the remaining cooldown, drains nothing and returns nil at
\* once; and a timer callback runs only when the lastFlush value of the
\* moment the timer was armed is at least flushCooldown old.
C3_FlushArms ==
  /\ [][ \A t \in Flushers :
           /\ ( /\ pc[t] = "f_lock"
                /\ pc'[t] # "f_lock"
                /\ sinceLastFlush < FlushCooldown
                /\ flushWaiting = Nil )
              => /\ pc'[t] = "f_arm"
                 /\ UNCHANGED <<timing, queues, drained, batch>>
           /\ (pc[t] = "f_arm" /\ pc'[t] # "f_arm")
              => /\ \E k \in Timers :
                      /\ timer[k].state = "free"
                      /\ flushWaiting' = k
                      /\ timer'[k].state = "armed"
                      /\ timer'[k].left =
                           IF sinceLastFlush < FlushCooldown
                             THEN FlushCooldown - sinceLastFlush ELSE 0
                      /\ \A j \in Timers \ {k} : timer'[j] = timer[j]
                 /\ pc'[t] \in {"idle", "select"}
                 /\ op[t] = "Flush" => ret' = "nil"
                 /\ UNCHANGED <<sinceLastFlush, queues, drained, batch>> ]_vars
  /\ [](\A k \in Timers :
          timer[k].state = "fired" => timer[k].base >= FlushCooldown)

\* C3 witness: a timer has fired and its callback is draining.
C3_Witness ==
  \E k \in Timers : timer[k].state = "fired" /\ pc[k] = "send"

\* C4: a Flush that finds the cooldown active and a timer waiting returns
\* nil and changes nothing: lastFlush, the handle, the timers and the two
\* queues stay as they are and the call does not reach the sender.
C4_FlushNoOp ==
  [][ \A t \in Flushers :
        ( /\ pc[t] = "f_lock"
          /\ pc'[t] # "f_lock"
          /\ sinceLastFlush < FlushCooldown
          /\ flushWaiting # Nil )
        => /\ UNCHANGED <<timing, queues, drained, batch, queueLock>>
           /\ flushLock' = Nil
           /\ pc'[t] \in {"idle", "select"}
           /\ op[t] = "Flush" => ret' = "nil" ]_vars

\* C4 witness: a user's Flush has returned nil while the cooldown is active,
\* a timer is still waiting and a record is still queued.
C4_Witness ==
  /\ window.calls >= 2
  /\ ret = "nil"
  /\ sinceLastFlush < FlushCooldown
  /\ flushWaiting # Nil
  /\ queueSize >= 1
  /\ \A t \in Flushers : pc[t] \in {"idle", "select"}

\* C5: at most one timer is armed, it is the one the handle names, and a
\* timer is armed only when the handle is empty.
C5_OneTimer ==
  /\ [](/\ Cardinality({k \in Timers : timer[k].state = "armed"}) <= 1
        /\ \A k \in Timers : timer[k].state = "armed" => flushWaiting = k)
  /\ [][ \A k \in Timers :
           (timer[k].state # "armed" /\ timer'[k].state = "armed")
           => flushWaiting = Nil /\ flushWaiting' = k ]_vars

\* C5 witness: one timer is armed while the callback of another, which has
\* fired, is still draining.
C5_Witness ==
  \E k1, k2 \in Timers :
    /\ timer[k1].state = "armed"
    /\ timer[k2].state = "fired"
    /\ pc[k2] \in InProcess

\* How often record id occurs in queue q
Occurrences(q, id) == Cardinality({n \in 1..Len(q) : q[n] = id})

C7_BelowCapacity ==
  /\ [][ ( /\ nextId' # nextId
           /\ eventQueue' # eventQueue
           /\ Len(eventQueue') + Len(identifierQueue') < batchSize )
         => /\ eventQueue' = Append(eventQueue, nextId)
            /\ UNCHANGED <<identifierQueue, timing, locks, control, batch,
                           drained>> ]_vars
  /\ [](\A t \in Producers :
          op[t] = "appendEvent" => hist[t].qsize >= batchSize)

\* C7 witness: one event is queued below the capacity, nothing was drained
\* and no thread is in an operation.
C7_Witness ==
  /\ batchSize = 2
  /\ eventQueue = <<1>>
  /\ identifierQueue = <<>>
  /\ nextId = 2
  /\ Active = {}
  /\ drained[1] = 0

\* C10: every record that was appended is in exactly one place: once in
\* its queue, or in exactly one batch that process() cut off the queues; a
\* record that was not appended is nowhere; and a batch at the sender holds
\* only records that are no longer queued.
C10_NoLossNoDuplicate ==
  /\ \A id \in Ids :
       LET queued == Occurrences(eventQueue, id)
                     + Occurrences(identifierQueue, id)
       IN IF id < nextId THEN queued + drained[id] = 1
                         ELSE queued = 0 /\ drained[id] = 0
  /\ \A t \in Workers :
       pc[t] = "send" =>
         \A id \in Ids :
           (Occurrences(batch[t].events, id)
            + Occurrences(batch[t].identifiers, id) >= 1)
           => /\ drained[id] = 1
              /\ Occurrences(eventQueue, id) = 0
              /\ Occurrences(identifierQueue, id) = 0
              /\ \A u \in Workers \ {t} :
                   pc[u] = "send" =>
                     /\ Occurrences(batch[u].events, id) = 0
                     /\ Occurrences(batch[u].identifiers, id) = 0

\* C10 witness: two threads are at the sender at the same moment, each with
\* a batch of its own.
C10_Witness ==
  \E t, u \in Workers :
    /\ t # u
    /\ pc[t] = "send"
    /\ pc[u] = "send"
    /\ Len(batch[t].events) + Len(batch[t].identifiers) >= 1
    /\ Len(batch[u].events) + Len(batch[u].identifiers) >= 1

\* C8: SetIdentifiers never returns straight from its append or from a
\* capacity-triggered drain: it runs Flush, and when it returns it has
\* drained on the Flush path or it leaves a timer waiting whose callback has
\* not drained yet.  Without any tick of the periodic loop, an identifier
\* record that is queued is eventually cut off the queue into a batch.
C8_SetIdentifiersFlushes ==
  /\ [][ /\ (nextId' # nextId /\ identifierQueue' # identifierQueue)
            => \E t \in Producers :
                 /\ pc[t] = "idle"
                 /\ pc'[t] \in {"p_lock", "f_lock"}
                 /\ op'[t] = "SetIdentifiers"
         /\ \A t \in Producers :
              ( /\ op[t] = "SetIdentifiers"
                /\ pc[t] # "idle"
                /\ pc'[t] = "idle" )
              => \/ /\ caller[t] = "Flush"
                    /\ pc[t] \in {"p_cut", "send", "errsend"}
                 \/ /\ pc[t] \in {"f_lock", "f_arm"}
                    /\ flushWaiting' # Nil
                    /\ timer'[flushWaiting'].state \in {"armed", "fired"}
                    /\ pc'[flushWaiting'] \in {"idle", "t_lock"} ]_vars
  /\ \A id \in Ids :
       (Occurrences(identifierQueue, id) = 1) ~> (drained[id] = 1)

\* C8 witness: SetIdentifiers has returned, its record is still queued and
\* a timer is waiting to drain it.
C8_Witness ==
  /\ identifierQueue # <<>>
  /\ Active = {}
  /\ flushWaiting # Nil
  /\ timer[flushWaiting].state = "armed"

C11_AtMostOnce ==
  /\ [](\A id \in Ids :
          drained[id] >= 1 =>
            /\ drained[id] = 1
            /\ Occurrences(eventQueue, id) = 0
            /\ Occurrences(identifierQueue, id) = 0)
  /\ [](\A t \in Workers :
          pc[t] = "send" =>
            \A id \in Ids :
              (Occurrences(batch[t].events, id)
               + Occurrences(batch[t].identifiers, id) >= 1)
              => drained[id] = 1)
  /\ [][ \A t \in Workers :
           (pc[t] = "send" /\ pc'[t] # "send")
           => UNCHANGED <<queues, drained>> ]_vars

\* C11 witness: the drain of the first record has failed, its error is on
\* the way to the error channel, and the second record is still queued.
C11_Witness ==
  /\ \E t \in Workers : pc[t] = "errsend" /\ caller[t] = "doProcess"
  /\ drained[1] = 1
  /\ drained[2] = 0
  /\ nextId = 3
  /\ \A t \in Workers : pc[t] \notin InProcess

C13_EmptyDrain ==
  /\ [][ \A t \in Workers :
           /\ ( /\ pc[t] = "p_lock"
                /\ pc'[t] = "p_cut"
                /\ eventQueue = <<>>
                /\ identifierQueue = <<>> )
              => batch'[t].events = <<>> /\ batch'[t].identifiers = <<>>
           /\ ( /\ pc[t] = "p_cut"
                /\ pc'[t] # "p_cut"
                /\ batch[t].events = <<>>
                /\ batch[t].identifiers = <<>> )
              => /\ pc'[t] \notin {"send", "errsend"}
                 /\ UNCHANGED <<queues, drained>>
                 /\ (op[t] = "Flush" /\ caller[t] = "Flush")
                    => pc'[t] = "idle" /\ ret' = "nil" ]_vars
  /\ [](\A t \in Workers :
          pc[t] = "send" =>
            Len(batch[t].events) + Len(batch[t].identifiers) >= 1)

\* C13 witness: on a client to which nothing was appended and whose loop
\* has not started, a user's Flush has returned nil.
C13_Witness ==
  /\ ret = "nil"
  /\ nextId = 1
  /\ pc[Loop] = "start"
  /\ Active = {}

\* The records of q are in the order of their appends (identities grow
\* with every append)
InAppendOrder(q) == \A n, m \in 1..Len(q) : n < m => q[n] < q[m]
\* Every record of b was appended before every record of q
AllBefore(b, q) == \A n \in 1..Len(b) : \A m \in 1..Len(q) : b[n] < q[m]
\* b is a front part of q
IsPrefix(b, q) == Len(b) <= Len(q) /\ b = SubSeq(q, 1, Len(b))

C15_CloseCancels ==
  /\ [][(pc[Closer] = "idle" /\ pc'[Closer] = "c_signal") =>
          \A k \in Timers : timer[k].state = "armed" =>
                               timer'[k].state = "stopped"]_vars
  /\ [][\A k \in Timers : timer[k].state = "stopped" =>
            timer'[k].state = "stopped" /\ pc'[k] = "idle"]_vars
  /\ [](\A k \in Timers : timer[k].state = "stopped" =>
          pc[k] = "idle" /\ closed)
\* Close has returned, the timer it stopped had reached its deadline, and
\* the records the timer was to drain are still queued.
C15_Witness ==
  /\ pc[Closer] = "closed"
  /\ \E k \in Timers : timer[k].state = "stopped" /\ timer[k].left = 0
  /\ queueSize > 0

\* C16: Close performs no drain.  The steps of Close (stopping the timer,
\* handing the stop signal to the loop) leave both queues as they are, cut
\* no batch and take part in no send; and the records that are queued once
\* Close has returned are never delivered: from then on the queues do not
\* change and no record is drained.
C16_CloseNoDrain ==
  /\ [][(pc'[Closer] # pc[Closer]) =>
          UNCHANGED <<eventQueue, identifierQueue, batch, drained>>]_vars
  /\ [](pc[Closer] \in {"idle", "c_signal", "closed"})
  /\ [][pc[Closer] = "closed" =>
          UNCHANGED <<eventQueue, identifierQueue, drained>>]_vars

IdentifyDone ==
  /\ CallsDone
  /\ flushWaiting = Nil
  /\ \A k \in Timers : timer[k].state = "free"

C19_CooldownSpacing ==
  [][\A t \in Flushers \cup Timers :
       (pc[t] \in {"f_lock", "t_lock"} /\ pc'[t] = "p_lock") =>
         sinceLastFlush >= FlushCooldown]_vars

\* C20: error routing.  When the send of a drain ends, its outcome goes one
\* way.  A drain made by a directly called Flush returns its outcome to the
\* caller and puts nothing on the error channel.  Any other drain (capacity,
\* deferred timer, periodic loop, the Flush inside SetIdentifiers) returns
\* nothing to a caller: its error is sent on the error channel when there is
\* one, once, and the operation goes on as after a success; without a
\* channel the error is dropped and the operation goes on likewise.
C20_ErrorRouting ==
  /\ [][\A t \in Workers :
         LET goesOn == IF op[t] = "handleBatch" THEN "select"
                       ELSE IF op[t] = "SetIdentifiers" /\
                               caller[t] = "doProcess" THEN "f_lock"
                       ELSE "idle"
         IN /\ (pc[t] = "send" /\ pc'[t] # "send") =>
                 IF op[t] = "Flush"
                   THEN pc'[t] = "idle" /\ ret' = batch[t].resp
                   ELSE /\ ret' = ret
                        /\ pc'[t] = IF batch[t].resp = "err" /\ errorChan
                                      THEN "errsend" ELSE goesOn
            /\ (pc[t] = "errsend" /\ pc'[t] # "errsend") =>
                 ret' = ret /\ pc'[t] = goesOn]_vars
  /\ [](\A t \in Workers :
          pc[t] = "errsend" => errorChan /\ op[t] # "Flush")
  /\ [][ret' # ret =>
          \E t \in Producers :
            op[t] = "Flush" /\ pc[t] # "idle" /\ pc'[t] = "idle"]_vars
\* A directly called Flush has returned the error of its drain, and the
\* error of the drain inside a SetIdentifiers call is on its way to the
\* error channel.
C20_Witness ==
  /\ ret = "err"
  /\ \E t \in Producers : pc[t] = "errsend" /\ op[t] = "SetIdentifiers"

\* C21: every Track, StartGame, Round.Track and SetIdentifiers call returns
\* in the end, given that its network calls return: the producer does not
\* depend on a cooldown, a timer, the network call of another thread or a
\* receiver on the error channel.
C21_ProducerReturns ==
  \A t \in Callers : (pc[t] # "idle") ~> (pc[t] = "idle")

\* The options of the builder, without the record of its last call
Options(b) == <<b.clientID, b.clientSecret, b.gameID, b.dsn, b.flushInterval,
                b.flushCooldown, b.retryMax>>

\* C22: construction fails fast.  Build panics when clientID, clientSecret,
\* gameID or the endpoint is empty; a setter panics on an empty string, an
\* endpoint that does not parse, a batchSize or maxRetryAttempts below 1, a
\* negative flushInterval or flushCooldown.  A call that panics stores
\* nothing and starts no loop; so the stored options are valid ones and the
\* loop runs only on a complete configuration.
C22_FailFast ==
  /\ [][builder' # builder =>
          LET l == builder'.last
              invalid ==
                \/ l.op \in {"WithClientID", "WithClientSecret",
                              "WithGameID"} /\ l.str = ""
                \/ l.op = "WithDSN" /\ (l.str = "" \/ ~ParseRequestURI(l.str))
                \/ l.op \in {"WithBatchSize", "WithMaxRetryAttempts"}
                     /\ l.num < 1
                \/ l.op \in {"WithFlushInterval", "WithFlushCooldown"}
                     /\ l.num < 0
                \/ l.op = "Build" /\ "" \in {builder.clientID,
                                               builder.clientSecret,
                                               builder.gameID, builder.dsn}
          IN /\ invalid => l.outcome = "panic"
             /\ l.outcome = "panic" =>
                  /\ Options(builder') = Options(builder)
                  /\ UNCHANGED <<batchSize, errorChan, pc>>]_vars
  /\ [][batchSize' # batchSize => batchSize' >= 1]_vars
  /\ [](/\ builder.flushInterval >= 0
         /\ builder.flushCooldown >= 0
         /\ builder.retryMax >= 1
         /\ builder.dsn # ""
         /\ batchSize >= 1)
  /\ [](~Building => "" \notin {builder.clientID, builder.clientSecret,
                                  builder.gameID, builder.dsn})
\* Build has panicked for want of a game id, with the default batch size
\* in place: no loop has started.
C22_Witness ==
  /\ Building
  /\ builder.last = Call("Build", "", 0, "panic")
  /\ builder.clientID = "id"
  /\ builder.gameID = ""
  /\ batchSize = defaultBatchSize

\* The values the JSON object j gives to key k
ValuesOf(j, k) == {j[n].value : n \in {m \in 1..Len(j) : j[m].key = k}}

\* C23: the encoding of an Identifiers value treats each field by itself,
\* in one of three ways: an absent (nil) field has no key in the JSON
\* object; a field set to the empty string is written with the value null;
\* a field set to a non-empty string x is written as the JSON string x.
C23_ThreeWayEncoding ==
  encoded.done =>
    \A k \in IdentifierKeys :
      LET p == encoded.value[k]
      IN ValuesOf(encoded.json, k) =
           IF p = <<>> THEN {}
           ELSE IF p[1] = "" THEN {JNull}
           ELSE {JString(p[1])}

\* C24: trait merge.  combineTraits(a, b), for maps a and b that may be
\* nil, returns a map that is not nil and is neither a nor b; its keys are
\* the keys of a together with the keys of b; a key of b has the value of
\* b, a key of a alone has the value of a; a and b are as they were.
C24_TraitMerge ==
  /\ [](traits.out # NilMap =>
          LET A == Deref(traits.heap, traits.a)
              B == Deref(traits.heap, traits.b)
              N == traits.heap[traits.out]
          IN /\ traits.out \notin {traits.a, traits.b}
             /\ DOMAIN N = DOMAIN A \cup DOMAIN B
             /\ \A k \in DOMAIN B : N[k] = B[k]
             /\ \A k \in DOMAIN A \ DOMAIN B : N[k] = A[k])
  /\ [][traits' # traits =>
          /\ traits'.a = traits.a /\ traits'.b = traits.b
          /\ \A o \in {1, 2} : traits'.heap[o] = traits.heap[o]]_vars
\* The merge of {k1: x, k2: x} with {k2: y} has been made: k1 from a, k2
\* from b.
C24_Witness ==
  /\ traits.out # NilMap
  /\ traits.a = 1 /\ traits.b = 2
  /\ traits.heap[1] = [k \in {"k1", "k2"} |-> "x"]
  /\ traits.heap[2] = [k \in {"k2"} |-> "y"]
  /\ traits.heap[traits.out] = [k \in {"k1", "k2"} |->
                                  IF k = "k1" THEN "x" ELSE "y"]

C26_NoLockAcrossSend ==
  \A t \in Workers :
    pc[t] \in {"send", "errsend"} => queueLock # t /\ flushLock # t
\* While the send of one thread is in progress, another thread is inside
\* the critical section of the queue, and the record it is cutting off was
\* appended after the batch that is being sent was cut.
C26_Witness ==
  \E s \in Workers : \E t \in Workers :
    /\ pc[s] = "send"
    /\ pc[t] = "p_cut"
    /\ queueLock = t
    /\ Len(batch[s].events) = 1
    /\ Len(batch[t].events) = 1
    /\ batch[s].events[1] < batch[t].events[1]

\* C27: the two locks are never nested, and nothing waits for them for
\* ever.  No thread holds both locks.  The holder of queueLock is at the end
\* of the critical section of process() and can leave it without any other
\* lock; the holder of flushLock is about to arm the timer and can do so
\* without any other lock.  So whoever waits for a lock waits for a holder
\* that can go on.
C27_NoNesting ==
  /\ \A t \in Threads : ~(queueLock = t /\ flushLock = t)
  /\ queueLock # Nil =>
       /\ pc[queueLock] = "p_cut"
       /\ ENABLED (\E r \in {"nil", "err"} : ProcessCut(queueLock, r))
  /\ flushLock # Nil =>
       /\ pc[flushLock] = "f_arm"
       /\ ENABLED (\E k \in Timers : FlushArm(flushLock, k))
\* Both locks are held at the same time, by two different threads.
C27_Witness ==
  /\ queueLock # Nil
  /\ flushLock # Nil
  /\ queueLock # flushLock

\* C28: lastFlush and the timer handle are accessed under flushLock only.
\* Flush and the timer callback take the lock for their accesses, so their
\* steps happen while no other thread holds it; the same is to hold of the
\* step of Close that reads the handle: it happens while no thread holds
\* flushLock, so it overlaps no critical section in which the loop's Flush
\* or the callback writes the handle.
C28_HandleUnderFlushLock ==
  /\ [][\A t \in Flushers \cup Timers :
         (pc[t] \in {"f_lock", "t_lock"} /\ pc'[t] # pc[t]) =>
           flushLock = Nil]_vars
  /\ [][\A t \in Flushers :
         (pc[t] = "f_arm" /\ pc'[t] # pc[t]) => flushLock = t]_vars
  /\ [][flushWaiting' # flushWaiting =>
          (flushLock = Nil \/ flushLock' = Nil)]_vars
  /\ [][(pc[Closer] = "idle" /\ pc'[Closer] # "idle") =>
          flushLock = Nil]_vars

\* C29: once Close has returned the timer handle is empty.
C29_HandleCleared ==
  pc[Closer] = "closed" => flushWaiting = Nil

\* C30: the callback of the deferred timer sets lastFlush and clears the
\* handle in one critical section of flushLock and only then drains.  So
\* while a timer callback is in its drain (copy, cut, network send, error
\* send) the handle does not name its timer any more, and a Flush that comes
\* during the send can arm another timer.
C30_TimerOrder ==
  /\ [][\A k \in Timers :
         (pc[k] = "t_lock" /\ pc'[k] # "t_lock") =>
           /\ flushLock = Nil /\ flushLock' = Nil
           /\ sinceLastFlush' = 0
           /\ flushWaiting' = Nil
           /\ pc'[k] = "p_lock"
           /\ UNCHANGED <<queues, drained, batch>>]_vars
  /\ [](\A k \in Timers :
          pc[k] \in InProcess \cup {"errsend"} => flushWaiting # k)
\* The send of a deferred drain is in progress, and a Flush that came in the
\* meantime has armed the next timer.
C30_Witness ==
  \E k \in Timers :
    /\ pc[k] = "send"
    /\ flushWaiting \in Timers \ {k}
    /\ timer[flushWaiting].state = "armed"

\* C31: at any moment at most one deferred-flush task exists, an armed timer
\* and a callback that has fired and not finished its drain both counted;
\* two timer callbacks are never in their drains at the same time.
C31_OneDeferredTask ==
  /\ Cardinality({k \in Timers : timer[k].state \in {"armed", "fired"}}) <= 1
  /\ Cardinality({k \in Timers : pc[k] \in InProcess \cup {"errsend"}}) <= 1

\* C32: once Close has returned (no producer call is made after Close) no
\* activity of the library remains: no deferred timer is armed, and from
\* then on neither the periodic loop nor a timer callback starts a drain or
\* a network send.
C32_QuietAfterClose ==
  /\ [](pc[Closer] = "closed" =>
          \A k \in Timers : timer[k].state # "armed")
  /\ [][pc[Closer] = "closed" =>
          \A t \in Timers \cup {Loop} :
            pc'[t] # pc[t] => pc'[t] \notin {"p_cut", "send"}]_vars

\* C33: whenever no operation of the client is in progress (no goroutine is
\* inside an append, a Flush or a drain, and no lock is held), the two queues
\* together hold fewer than batchSize records.
C33_QueueBoundAtRest ==
  (Active = {} /\ queueLock = Nil /\ flushLock = Nil) =>
    queueSize < batchSize
\* The client is at rest with its queues one record short of batchSize,
\* after a drain has taken an earlier record.
C33_Witness ==
  /\ Active = {}
  /\ queueLock = Nil
  /\ flushLock = Nil
  /\ queueSize > 0
  /\ queueSize = batchSize - 1
  /\ \E i \in Ids : drained[i] > 0

\* C34: a Flush on the cooldown-elapsed path starts a new cooldown window
\* whether or not it sends anything.  Its step under flushLock sets lastFlush
\* before the drain has touched a queue; no step of that drain, an empty
\* batch or a failed send included, changes lastFlush; and a Flush that finds
\* the cooldown still running does not drain at once: it leaves a timer
\* waiting or goes on to arm one.
C34_WindowStartsAnyway ==
  /\ [][\A t \in Flushers :
         (pc[t] = "f_lock" /\ pc'[t] # "f_lock" /\
          CooldownElapsed(sinceLastFlush)) =>
           /\ sinceLastFlush' = 0
           /\ pc'[t] = "p_lock"
           /\ UNCHANGED <<queues, drained, batch>>]_vars
  /\ [][\A t \in Flushers :
         (caller[t] = "Flush" /\ pc[t] \in InProcess /\ pc'[t] # pc[t]) =>
           sinceLastFlush' = sinceLastFlush]_vars
  /\ [][\A t \in Flushers :
         (pc[t] = "f_lock" /\ pc'[t] # "f_lock" /\
          ~CooldownElapsed(sinceLastFlush)) =>
           /\ pc'[t] # "p_lock"
           /\ pc'[t] = "f_arm" \/ flushWaiting' # Nil
           /\ UNCHANGED <<queues, drained, batch>>]_vars
\* The only drain so far was the one of a Flush call whose send failed; the
\* Flush of a SetIdentifiers call that came within the cooldown has left a
\* timer waiting, and its identifier is still queued.
C34_Witness ==
  /\ ret = "err"
  /\ pc[Loop] = "start"
  /\ drained[1] = 1
  /\ identifierQueue = <<2>>
  /\ Active = {}
  /\ window.calls >= 1
  /\ flushWaiting # Nil
  /\ timer[flushWaiting].state = "armed"

\* C35: the records of one queue reach the network in append order across
\* batches.  Of two requests given to the HTTP client, the earlier one holds
\* no event that was appended after an event of the later one, and no
\* identifier that was appended after an identifier of the later one.
C35_SendOrder ==
  \A n, m \in 1..Len(wire) :
    n < m =>
      /\ AllBefore(wire[n].events, wire[m].events)
      /\ AllBefore(wire[n].identifiers, wire[m].identifiers)

\* C36: for every flush interval the builder accepts (0 included) the loop
\* that Build starts does not crash the process: it gets from its start to
\* its select, and it leaves the select only for a Flush or on the stop
\* signal of Close.
C36_LoopRuns ==
  /\ [](builder.flushInterval >= 0)
  /\ [](pc[Loop] # "panic")
  /\ [][pc[Loop] = "start" /\ pc'[Loop] # "start" =>
          pc'[Loop] = "select"]_vars
  /\ [][pc[Loop] = "select" /\ pc'[Loop] # "select" =>
          \/ pc'[Loop] = "f_lock"
          \/ pc'[Loop] = "stopped" /\ pc[Closer] = "c_signal"]_vars
====
